---- MODULE Spec2Model ----
(***************************************************************************)
(* Report rendering and persistence pipeline of examples/streamlit_app.py: *)
(* the font provisioner, the layout fitter, the PDF renderer, the history  *)
(* store (SQLite table research_history) and the research run driver.      *)
(*                                                                         *)
(* Four specifications share one set of variables:                         *)
(*   SpecHist  the history store under saves, fetches, deletes and lists   *)
(*   SpecRun   execute_research, phase by phase, over the history store    *)
(*   SpecPdf   generate_pdf_report (with ensure_chinese_font), call by call*)
(*   SpecFit   choose_font_size over the metrics of the loaded font        *)
(* Calls into Streamlit, the agent, fpdf, markdown, urllib and sqlite3 are *)
(* external: each either returns or raises, chosen nondeterministically.   *)
(***************************************************************************)
EXTENDS Integers, Sequences, FiniteSets, TLC

(* ------------------------------ bounds --------------------------------- *)
\* rows the store may ever be given (caps the AUTOINCREMENT counter)
MaxRecords == 2
\* readings of datetime.now(): 0..MaxClock (local wall clock: may repeat or step back)
MaxClock == 1
\* paragraphs the structure generation may produce: 0..MaxParagraphs
MaxParagraphs == 3
\* research runs started one after the other
MaxRuns == 2
\* lines of a report handed to generate_pdf_report: 0..MaxLines
MaxLines == 2
\* calls of generate_pdf_report
MaxCalls == 2

(* ------------------------------ values --------------------------------- *)
\* Python's None where a str is expected
None == "None"
\* an absent row / absent bytes: the empty option; Some(x) holds one value
Absent == <<>>
Some(x) == <<x>>

\* a str holding a lone surrogate: sqlite3 cannot encode it as UTF-8
Surrogate == "lone-surrogate"
Queries == {"q1", "q2"}
Reports == {"r1", "r2", Surrogate}

VARIABLES
  \* history.db
  tableExists,   \* research_history has been created
  store,         \* the committed rows of research_history
  seq,           \* sqlite_sequence.seq of research_history (AUTOINCREMENT)
  hres,          \* the last history operation: what it was given and returned
  assigned,      \* history of inserts: every [id, query, report] ever committed
  deleted,       \* ids of inserted rows whose delete committed
  \* execute_research
  rpc,           \* position in execute_research
  runs,          \* runs started so far
  query,         \* the run's query
  total,         \* total_paragraphs (len(agent.state.paragraphs))
  idx,           \* the loop variable i
  progress,      \* values given to progress_bar.progress, in order
  phases,        \* agent phases invoked, in order
  final_report,  \* the run's final report (None before synthesis)
  errors,        \* st.error calls of the run (outer handler)
  warnings,      \* st.warning calls of the run (inner handler)
  displayed,     \* the report display_results was invoked with
  storeBefore,   \* the rows held when the run started
  dbOutcome,     \* how the run's database block ended
  raisedIn,      \* the phase whose exception reached the outer handler
  \* fonts/NotoSansCJKsc-Regular.otf and ensure_chinese_font
  fontFile,      \* the file at FONT_PATH: absent, partial or complete
  fontCall,      \* the last call of ensure_chinese_font: what it found, did, returned
  readyOnce,     \* a call of ensure_chinese_font has returned (True, None)
  netCalls,      \* urlretrieve calls made so far
  netAfterReady, \* urlretrieve calls made after such a call
  \* generate_pdf_report
  ppc,           \* position in generate_pdf_report
  calls,         \* calls of generate_pdf_report so far
  content,       \* content.split("\n"): the lines of the report
  mdLoaded,      \* the markdown module was imported (md is not None)
  base_size,     \* the fitted font size (0 before choose_font_size)
  rendered,      \* the local flag rendered
  lineNo,        \* the next line of the plain-text loop
  doc,           \* what has been drawn on the document, in order
  pdfResult,     \* what the call gave its caller
  tried,         \* the rendering tiers attempted by the call
  raisedAt,      \* where the exception caught at line 118 was raised
  \* choose_font_size
  metrics,       \* get_string_width of each test glyph at each size
  fitted         \* the size choose_font_size returned (0 before the call)

histVars == <<tableExists, store, seq, hres, assigned, deleted>>
runVars == <<rpc, runs, query, total, idx, progress, phases, final_report,
             errors, warnings, displayed, storeBefore, dbOutcome, raisedIn>>
fontVars == <<fontFile, fontCall, readyOnce, netCalls, netAfterReady>>
pdfVars == <<ppc, calls, content, mdLoaded, base_size, rendered, lineNo, doc,
             pdfResult, tried, raisedAt>>
fitVars == <<metrics, fitted>>
vars == <<histVars, runVars, fontVars, pdfVars, fitVars>>

(* ---------------------------- history store ---------------------------- *)
Row(id, q, r, t) == [id |-> id, query |-> q, report |-> r, created_at |-> t]

\* what an operation leaves for its caller: ret, the value returned (a row, the
\* rows); ok, whether it reported success; err, whether it reported an error
\* (st.error, st.warning); raised, whether an exception left it; and fault,
\* whether the storage layer failed under it
Outcome(op, id, ret, ok, err, fault) ==
  [op |-> op, id |-> id, ret |-> ret, ok |-> ok, err |-> err, fault |-> fault,
   raised |-> FALSE]
NoOp == Outcome("none", 0, <<>>, FALSE, FALSE, FALSE)

\* binding a str parameter to a TEXT column encodes it as UTF-8
CanBind(v) == v # Surrogate

\* where the database block of execute_research may raise; "ok": nowhere
\* "post": after the commit (conn.close or st.success)
DbSites == {"ok", "connect", "create", "insert", "commit", "post"}
Committed(site) == site \in {"ok", "post"}

\* lines 553-568: connect, CREATE TABLE IF NOT EXISTS (DDL, committed at once),
\* INSERT (query, report, datetime.now()), commit, close
InsertMutantTwice(q, r, t, site) ==
  /\ tableExists' = (tableExists \/ site \notin {"connect", "create"})
  /\ IF Committed(site)
       THEN /\ store' = store \cup {Row(seq + 1, q, r, t), Row(seq + 2, q, r, t)}
            /\ seq' = seq + 2
       ELSE UNCHANGED <<store, seq>>
\* (INTEGER PRIMARY KEY without AUTOINCREMENT: the largest rowid in the table + 1)
InsertMutantReuseId(q, r, t, site) ==
  /\ tableExists' = (tableExists \/ site \notin {"connect", "create"})
  /\ IF Committed(site)
       THEN /\ store' = store \cup
                 {Row(IF store = {} THEN 1
                      ELSE 1 + (CHOOSE n \in {x.id : x \in store} :
                                  \A x \in store : x.id <= n), q, r, t)}
            /\ seq' = seq + 1
       ELSE UNCHANGED <<store, seq>>
InsertRow(q, r, t, site) ==
  /\ tableExists' = (tableExists \/ site \notin {"connect", "create"})
  /\ IF Committed(site)
       THEN /\ store' = store \cup {Row(seq + 1, q, r, t)}
            /\ seq' = seq + 1
       ELSE UNCHANGED <<store, seq>>

\* the sites at which the block can end for these parameters
CanEndAt(q, r, site) ==
  /\ Committed(site) => (CanBind(q) /\ CanBind(r) /\ seq < MaxRecords)

\* execute_research's database block, as the history store's save
Save ==
  \E q \in Queries, r \in Reports, t \in 0..MaxClock, site \in DbSites :
    /\ CanEndAt(q, r, site)
    /\ InsertRow(q, r, t, site)
    /\ assigned' = IF Committed(site)
                     THEN assigned \cup {[id |-> seq + 1, query |-> q, report |-> r]}
                     ELSE assigned
    /\ hres' = Outcome("save", IF Committed(site) THEN seq + 1 ELSE 0, <<>>,
                        Committed(site), site # "ok", site # "ok")
    /\ UNCHANGED deleted

\* lines 155-160: SELECT ... WHERE id = ?; fetchone
SelectById(record_id) ==
  IF \E row \in store : row.id = record_id
    THEN Some(CHOOSE row \in store : row.id = record_id)
    ELSE Absent

\* get_history_record_by_id: no CREATE TABLE precedes the SELECT
GetRecord(record_id, fails) ==
  /\ IF fails \/ ~tableExists
       THEN hres' = Outcome("get", record_id, Absent, FALSE, TRUE, fails)
       ELSE hres' = Outcome("get", record_id, SelectById(record_id), TRUE, FALSE, FALSE)
  /\ UNCHANGED <<tableExists, store, seq, assigned, deleted>>

Get == \E record_id \in 1..MaxRecords + 1, fails \in BOOLEAN : GetRecord(record_id, fails)

\* the id, when a committed insert was given it
WasAssigned(record_id) == {a.id : a \in {x \in assigned : x.id = record_id}}

\* delete_history_record: DELETE ... WHERE id = ?; commit; return True
DeleteRecordMutantNoCommit(record_id, fails) ==
  /\ hres' = Outcome("delete", record_id, <<>>, ~(fails \/ ~tableExists),
                      fails \/ ~tableExists, fails)
  /\ deleted' = IF fails \/ ~tableExists THEN deleted ELSE deleted \cup WasAssigned(record_id)
  /\ UNCHANGED <<tableExists, store, seq, assigned>>
DeleteRecordMutantNoHandler(record_id, fails) ==
  /\ IF fails \/ ~tableExists
       THEN /\ hres' = [Outcome("delete", record_id, <<>>, FALSE, FALSE, fails)
                          EXCEPT !.raised = TRUE]
            /\ UNCHANGED <<store, deleted>>
       ELSE /\ store' = {row \in store : row.id # record_id}
            /\ hres' = Outcome("delete", record_id, <<>>, TRUE, FALSE, FALSE)
            /\ deleted' = deleted \cup WasAssigned(record_id)
  /\ UNCHANGED <<tableExists, seq, assigned>>
DeleteRecord(record_id, fails) ==
  /\ IF fails \/ ~tableExists
       THEN /\ hres' = Outcome("delete", record_id, <<>>, FALSE, TRUE, fails)
            /\ UNCHANGED <<store, deleted>>
       ELSE /\ store' = {row \in store : row.id # record_id}
            /\ hres' = Outcome("delete", record_id, <<>>, TRUE, FALSE, FALSE)
            /\ deleted' = deleted \cup WasAssigned(record_id)
  /\ UNCHANGED <<tableExists, seq, assigned>>

Delete == \E record_id \in 1..MaxRecords + 1, fails \in BOOLEAN : DeleteRecord(record_id, fails)

\* lines 136-140: ORDER BY created_at DESC
SortedMutantAsc(s) ==
  \A i, j \in DOMAIN s : i < j => s[i].created_at <= s[j].created_at
SortedDesc(s) ==
  \A i, j \in DOMAIN s : i < j => s[i].created_at >= s[j].created_at

\* line 141: fetchall(): every row once, in an order the ORDER BY allows
\* (rows of equal created_at come in either order)
FetchAll ==
  {s \in [1..Cardinality(store) -> store] :
     /\ \A i, j \in DOMAIN s : i # j => s[i] # s[j]
     /\ SortedDesc(s)}

\* get_history_records: connect, CREATE TABLE IF NOT EXISTS (DDL, committed at
\* once), SELECT; site: where it raises ("ok": nowhere)
ListSites == {"ok", "connect", "select"}
ListRecords(site, rows) ==
  /\ tableExists' = (tableExists \/ site # "connect")
  /\ hres' = IF site = "ok"
               THEN Outcome("list", 0, rows, TRUE, FALSE, FALSE)
               ELSE Outcome("list", 0, <<>>, FALSE, TRUE, TRUE)
  /\ UNCHANGED <<store, seq, assigned, deleted>>

List ==
  \E site \in ListSites, rows \in FetchAll : ListRecords(site, rows)

HistInit ==
  /\ tableExists = FALSE
  /\ store = {}
  /\ seq = 0
  /\ hres = NoOp
  /\ assigned = {}
  /\ deleted = {}

RunIdle ==
  /\ rpc = "idle"
  /\ runs = 0
  /\ query = None
  /\ total = 0
  /\ idx = 0
  /\ progress = <<>>
  /\ phases = <<>>
  /\ final_report = None
  /\ errors = 0
  /\ warnings = 0
  /\ displayed = None
  /\ storeBefore = {}
  /\ dbOutcome = "none"
  /\ raisedIn = "none"

(* --------------------------- execute_research -------------------------- *)
Phase(name, i) == [ph |-> name, i |-> i]

\* int(x) of a non-negative quotient num/den: the integer part
IntPart(num, den) == num \div den

\* line 529: int(20 + (i + 0.5) / total_paragraphs * 60), as the exact quotient
\* (40n + 60(2i+1)) / 2n; the double evaluation agrees with it for every n < 400
ProgressMidMutantAhead(i, n) == IntPart(40 * n + (2 * i + 3) * 60, 2 * n)
ProgressMid(i, n) == IntPart(40 * n + (2 * i + 1) * 60, 2 * n)

\* line 536: int(20 + (i + 1) / total_paragraphs * 60)
ProgressEndMutantOffByOne(i, n) == IntPart(20 * n + i * 60, n)
ProgressEnd(i, n) == IntPart(20 * n + (i + 1) * 60, n)

\* line 577-578: the outer handler
FailMutantRetry(ph) ==
  /\ rpc' = rpc
  /\ errors' = errors + 1
  /\ raisedIn' = ph
Fail(ph) ==
  /\ rpc' = "failed"
  /\ errors' = errors + 1
  /\ raisedIn' = ph

\* lines 506-508: a run starts (the script is rerun for every run)
StartRun ==
  /\ rpc \in {"idle", "done", "failed"}
  /\ runs < MaxRuns
  /\ \E q \in Queries : query' = q
  /\ runs' = runs + 1
  /\ rpc' = "init"
  /\ progress' = <<0>>
  /\ phases' = <<>>
  /\ total' = 0
  /\ idx' = 0
  /\ final_report' = None
  /\ errors' = 0
  /\ warnings' = 0
  /\ displayed' = None
  /\ storeBefore' = store
  /\ dbOutcome' = "none"
  /\ raisedIn' = "none"
  /\ UNCHANGED <<fontVars, pdfVars, fitVars, histVars>>

\* lines 511-515: DeepSearchAgent(config)
AgentInit ==
  /\ rpc = "init"
  /\ phases' = Append(phases, Phase("init", 0))
  /\ \/ /\ rpc' = "structure"
        /\ progress' = Append(progress, 10)
        /\ UNCHANGED <<errors, raisedIn>>
     \/ /\ Fail("init")
        /\ UNCHANGED progress
  /\ UNCHANGED <<fontVars, pdfVars, fitVars, histVars, runs, query, total, idx, final_report, warnings,
                 displayed, storeBefore, dbOutcome>>

\* lines 518-523: agent._generate_report_structure(query); total_paragraphs
GenerateStructure ==
  /\ rpc = "structure"
  /\ phases' = Append(phases, Phase("structure", 0))
  /\ \/ /\ \E n \in 0..MaxParagraphs :
             /\ total' = n
             /\ rpc' = IF n > 0 THEN "search" ELSE "final"
        /\ progress' = Append(progress, 20)
        /\ UNCHANGED <<errors, raisedIn>>
     \/ /\ Fail("structure")
        /\ UNCHANGED <<progress, total>>
  /\ UNCHANGED <<fontVars, pdfVars, fitVars, histVars, runs, query, idx, final_report, warnings,
                 displayed, storeBefore, dbOutcome>>

\* lines 525-530: agent._initial_search_and_summary(i)
InitialSearch ==
  /\ rpc = "search"
  /\ phases' = Append(phases, Phase("search", idx))
  /\ \/ /\ rpc' = "reflect"
        /\ progress' = Append(progress, ProgressMid(idx, total))
        /\ UNCHANGED <<errors, raisedIn>>
     \/ /\ Fail("search")
        /\ UNCHANGED progress
  /\ UNCHANGED <<fontVars, pdfVars, fitVars, histVars, runs, query, total, idx, final_report, warnings,
                 displayed, storeBefore, dbOutcome>>

\* lines 533-537: agent._reflection_loop(i); mark_completed(); next i
ReflectionMutantBreak ==
  /\ rpc = "reflect"
  /\ \/ /\ phases' = phases \o <<Phase("reflect", idx), Phase("completed", idx)>>
        /\ progress' = Append(progress, ProgressEnd(idx, total))
        /\ idx' = idx + 1
        /\ rpc' = "final"
        /\ UNCHANGED <<errors, raisedIn>>
     \/ /\ phases' = Append(phases, Phase("reflect", idx))
        /\ Fail("reflect")
        /\ UNCHANGED <<progress, idx>>
  /\ UNCHANGED <<fontVars, pdfVars, fitVars, histVars, runs, query, total, final_report, warnings,
                 displayed, storeBefore, dbOutcome>>
Reflection ==
  /\ rpc = "reflect"
  /\ \/ /\ phases' = phases \o <<Phase("reflect", idx), Phase("completed", idx)>>
        /\ progress' = Append(progress, ProgressEnd(idx, total))
        /\ idx' = idx + 1
        /\ rpc' = IF idx + 1 < total THEN "search" ELSE "final"
        /\ UNCHANGED <<errors, raisedIn>>
     \/ /\ phases' = Append(phases, Phase("reflect", idx))
        /\ Fail("reflect")
        /\ UNCHANGED <<progress, idx>>
  /\ UNCHANGED <<fontVars, pdfVars, fitVars, histVars, runs, query, total, final_report, warnings,
                 displayed, storeBefore, dbOutcome>>

\* lines 540-542: final_report = agent._generate_final_report()
FinalReport ==
  /\ rpc = "final"
  /\ phases' = Append(phases, Phase("final", 0))
  /\ \/ /\ \E r \in Reports : final_report' = r
        /\ rpc' = "save_report"
        /\ progress' = Append(progress, 90)
        /\ UNCHANGED <<errors, raisedIn>>
     \/ /\ Fail("final")
        /\ UNCHANGED <<progress, final_report>>
  /\ UNCHANGED <<fontVars, pdfVars, fitVars, histVars, runs, query, total, idx, warnings,
                 displayed, storeBefore, dbOutcome>>

\* lines 545-549: agent._save_report(final_report)
SaveReport ==
  /\ rpc = "save_report"
  /\ phases' = Append(phases, Phase("save_report", 0))
  /\ \/ /\ rpc' = "db"
        /\ progress' = Append(progress, 100)
        /\ UNCHANGED <<errors, raisedIn>>
     \/ /\ Fail("save_report")
        /\ UNCHANGED progress
  /\ UNCHANGED <<fontVars, pdfVars, fitVars, histVars, runs, query, total, idx, final_report, warnings,
                 displayed, storeBefore, dbOutcome>>

\* lines 552-571: the database block and its handler (st.warning)
DbBlockMutantRaise(t, site) ==
  /\ InsertRow(query, final_report, t, site)
  /\ dbOutcome' = site
  /\ IF site = "ok"
       THEN /\ rpc' = "display"
            /\ UNCHANGED <<errors, raisedIn>>
       ELSE Fail("db")
  /\ UNCHANGED warnings
DbBlock(t, site) ==
  /\ InsertRow(query, final_report, t, site)
  /\ dbOutcome' = site
  /\ warnings' = IF site = "ok" THEN warnings ELSE warnings + 1
  /\ rpc' = "display"
  /\ UNCHANGED <<errors, raisedIn>>

StoreHistory ==
  /\ rpc = "db"
  /\ phases' = Append(phases, Phase("db", 0))
  /\ \E t \in 0..MaxClock, site \in DbSites :
       /\ CanEndAt(query, final_report, site)
       /\ DbBlock(t, site)
       /\ assigned' = IF Committed(site)
                        THEN assigned \cup {[id |-> seq + 1, query |-> query,
                                             report |-> final_report]}
                        ELSE assigned
  /\ UNCHANGED <<fontVars, pdfVars, fitVars, hres, deleted, runs, query, total, idx, progress, final_report,
                 displayed, storeBefore>>

\* line 575: display_results(agent, final_report); it reads the agent's state
Display ==
  /\ rpc = "display"
  /\ displayed' = final_report
  /\ \/ /\ rpc' = "done"
        /\ UNCHANGED <<errors, raisedIn>>
     \/ Fail("display")
  /\ UNCHANGED <<fontVars, pdfVars, fitVars, histVars, runs, query, total, idx, progress, phases, final_report,
                 warnings, storeBefore, dbOutcome>>

(* --------------------------- choose_font_size -------------------------- *)
\* line 56: format="A4", unit="mm": pdf.w, in whole millimetres
PageWidth == 210
\* line 58: set_margins(left=12, top=15, right=12)
LeftMargin == 12
RightMargin == 12
\* line 64: size = 12;  lines 68, 73: the floor size
StartSize == 12
FloorSize == 7

\* lines 65, 77: effective_width = pdf.w - pdf.l_margin - pdf.r_margin
EffectiveWidth == PageWidth - LeftMargin - RightMargin
\* line 67: test_chars
TestChars == {"han", "W"}
Sizes == FloorSize..StartSize

SetMax(S) == CHOOSE x \in S : \A y \in S : y <= x

\* line 70: max(pdf.get_string_width(ch) for ch in test_chars) at the set size
MaxWidth(m, size) == SetMax({m[ch][size] : ch \in TestChars})

\* lines 68-73: the loop from the current size down, and the floor
RECURSIVE FitFromMutantNotStrict(_, _)
FitFromMutantNotStrict(m, size) ==
  IF size >= FloorSize
    THEN IF MaxWidth(m, size) <= EffectiveWidth
           THEN size
           ELSE FitFromMutantNotStrict(m, size - 1)
    ELSE FloorSize
RECURSIVE FitFrom(_, _)
FitFrom(m, size) ==
  IF size >= FloorSize
    THEN IF MaxWidth(m, size) < EffectiveWidth
           THEN size
           ELSE FitFrom(m, size - 1)
    ELSE FloorSize

\* lines 63-73
choose_font_size(m) == FitFrom(m, StartSize)

\* widths the font's metrics may give a glyph, around the effective width
HanWidths == {EffectiveWidth - 1, EffectiveWidth, EffectiveWidth + 1}
LatinWidths == {EffectiveWidth - 1, EffectiveWidth + 1}
AllMetrics ==
  {[ch \in TestChars |-> IF ch = "han" THEN h ELSE l] :
     h \in [Sizes -> HanWidths], l \in [Sizes -> LatinWidths]}

\* a font whose glyphs fit up to size k and are too wide above it
FitsUpTo(k) ==
  [ch \in TestChars |-> [sz \in Sizes |-> IF sz <= k THEN EffectiveWidth - 1
                                                      ELSE EffectiveWidth + 1]]
NoMetrics == FitsUpTo(StartSize)

\* line 74: base_size = choose_font_size(), on the font's metrics
Fit ==
  /\ fitted = 0
  /\ fitted' = choose_font_size(metrics)
  /\ UNCHANGED <<metrics, histVars, runVars, fontVars, pdfVars>>

(* -------------------------- ensure_chinese_font ------------------------ *)
\* str(e) of the exceptions the libraries raise
ExcMsgs == {"", "boom"}

\* line 54: the message prefix (the source's literal is Chinese:
\* "download of the Chinese font failed: ")
FontErrorPrefix == "xiazai zhongwen ziti shibai: "

NoFontCall == [existed |-> FALSE, ready |-> FALSE, err |-> None, net |-> 0, wrote |-> 0]

\* line 36: os.path.exists(FONT_PATH)
FontExistsMutantNever == FALSE
FontExists == fontFile # "absent"

\* lines 34-43; how: what happens on the download path
\*   "ok"       urlretrieve completes: the file is written
\*   "mkdir"    os.makedirs raises
\*   "connect"  urlretrieve raises before it creates the file
\*   "partial"  urlretrieve raises part-way: the file it opened stays
DownloadOutcomes == {"ok", "mkdir", "connect", "partial"}

ensure_chinese_font(how, msg) ==
  IF FontExists
    THEN /\ fontCall' = [existed |-> fontFile # "absent", ready |-> TRUE, err |-> None,
                         net |-> 0, wrote |-> 0]
         /\ readyOnce' = TRUE
         /\ UNCHANGED <<fontFile, netCalls, netAfterReady>>
    ELSE /\ fontFile' = CASE how = "ok" -> "complete"
                          [] how = "partial" -> "partial"
                          [] OTHER -> fontFile
         /\ fontCall' = [existed |-> fontFile # "absent",
                         ready |-> how = "ok",
                         err |-> IF how = "ok" THEN None ELSE msg,
                         net |-> IF how = "mkdir" THEN 0 ELSE 1,
                         wrote |-> IF how \in {"ok", "partial"} THEN 1 ELSE 0]
         /\ readyOnce' = (readyOnce \/ how = "ok")
         /\ netCalls' = IF how # "mkdir" THEN netCalls + 1 ELSE netCalls
         /\ netAfterReady' = IF readyOnce /\ how # "mkdir"
                               THEN netAfterReady + 1 ELSE netAfterReady

(* -------------------------- generate_pdf_report ------------------------ *)
\* a line of the report: blank (line.strip() == ""), ordinary text, or one
\* holding an unbreakable token wider than the page
LineKinds == {"", "text", "token"}
Contents == UNION {[1..n -> LineKinds] : n \in 1..MaxLines}

Drawn(tier, how, n) == [tier |-> tier, how |-> how, line |-> n]
NoResult == [kind |-> "none", bytes |-> Absent, err |-> None]
Returned(bytes, err) == [kind |-> "return", bytes |-> bytes, err |-> err]

\* line 111-116: pdf.output(dest="S") as bytes: the header, then what was drawn
Serialize(d) == <<Drawn("file", "%PDF", 0)>> \o d

\* lines 118-119: except Exception as e: return None, str(e)
OuterHandlerMutantPropagate(msg, where) ==
  /\ pdfResult' = [kind |-> "raise", bytes |-> Absent, err |-> msg]
  /\ ppc' = "returned"
  /\ raisedAt' = where
OuterHandler(msg, where) ==
  /\ pdfResult' = Returned(Absent, msg)
  /\ ppc' = "returned"
  /\ raisedAt' = where

\* lines 53-54: the provisioning gate
FontGateMutantGoOn(ready, err) ==
  /\ ppc' = "doc"
  /\ pdfResult' = NoResult
FontGate(ready, err) ==
  IF ~ready
    THEN /\ pdfResult' = Returned(Absent, FontErrorPrefix \o err)
         /\ ppc' = "returned"
    ELSE /\ ppc' = "doc"
         /\ pdfResult' = NoResult

\* lines 50-54: a call of generate_pdf_report, to the provisioning gate
PdfCall ==
  /\ ppc \in {"idle", "returned"}
  /\ calls < MaxCalls
  /\ calls' = calls + 1
  /\ \E c \in Contents : content' = c
  /\ \E how \in DownloadOutcomes, msg \in ExcMsgs :
       /\ FontExists => (how = "ok" /\ msg = "")   \* neither is read on that path
       /\ ensure_chinese_font(how, msg)
       /\ FontGate(fontCall'.ready, fontCall'.err)
  /\ base_size' = 0
  /\ rendered' = FALSE
  /\ lineNo' = 1
  /\ doc' = <<>>
  /\ tried' = {}
  /\ raisedAt' = "none"
  /\ UNCHANGED <<mdLoaded, fitVars, histVars, runVars>>

\* lines 56-77: the document, its font, the first page, the fitted size
DocSetup ==
  /\ ppc = "doc"
  /\ tried' = tried \cup {"doc"}
  /\ \/ /\ \E k \in {FloorSize - 1, 9, StartSize} :
             base_size' = choose_font_size(FitsUpTo(k))
        /\ ppc' = IF mdLoaded THEN "structured" ELSE "lines"
        /\ UNCHANGED <<pdfResult, raisedAt>>
     \/ /\ \E msg \in ExcMsgs : OuterHandler(msg, "doc")
        /\ UNCHANGED base_size
  /\ UNCHANGED <<calls, content, mdLoaded, rendered, lineNo, doc,
                 fontVars, fitVars, histVars, runVars>>

\* lines 80-91: md.markdown, write_html; a failure is swallowed
\* (mutant: the plain-text loop is not guarded by "if not rendered")
StructuredMutantFallsThrough ==
  /\ ppc = "structured"
  /\ tried' = tried \cup {"structured"}
  /\ \/ /\ doc' = Append(doc, Drawn("html", "full", 0))
        /\ rendered' = TRUE
        /\ ppc' = "lines"
     \/ /\ \E part \in BOOLEAN :
             doc' = IF part THEN Append(doc, Drawn("html", "part", 0)) ELSE doc
        /\ rendered' = FALSE
        /\ ppc' = "lines"
  /\ UNCHANGED <<calls, content, mdLoaded, base_size, lineNo, pdfResult, raisedAt,
                 fontVars, fitVars, histVars, runVars>>
Structured ==
  /\ ppc = "structured"
  /\ tried' = tried \cup {"structured"}
  /\ \/ /\ doc' = Append(doc, Drawn("html", "full", 0))
        /\ rendered' = TRUE
        /\ ppc' = "output"
     \/ /\ \E part \in BOOLEAN :
             doc' = IF part THEN Append(doc, Drawn("html", "part", 0)) ELSE doc
        /\ rendered' = FALSE
        /\ ppc' = "lines"
  /\ UNCHANGED <<calls, content, mdLoaded, base_size, lineNo, pdfResult, raisedAt,
                 fontVars, fitVars, histVars, runVars>>

\* lines 100-110: one non-blank line; attempt: the multi_cell call that
\* succeeds (1 direct, 2 zero-width spaces, 3 latin-1 replacement), 4: none
LineAttempts(attempt, msg) ==
  IF attempt = 4
    THEN /\ OuterHandler(msg, "line")
         /\ UNCHANGED <<doc, lineNo>>
    ELSE /\ doc' = Append(doc, Drawn("plain", CASE attempt = 1 -> "direct"
                                                [] attempt = 2 -> "zero-width"
                                                [] OTHER -> "latin-1", lineNo))
         /\ lineNo' = lineNo + 1
         /\ UNCHANGED <<ppc, pdfResult, raisedAt>>

\* lines 93-110: the plain-text loop, one line a step
PlainLine ==
  /\ ppc = "lines"
  /\ lineNo <= Len(content)
  /\ tried' = tried \cup {"plain"}
  /\ IF content[lineNo] = ""
       THEN /\ doc' = Append(doc, Drawn("plain", "ln", lineNo))
            /\ lineNo' = lineNo + 1
            /\ UNCHANGED <<ppc, pdfResult, raisedAt>>
       ELSE \E attempt \in 1..4, msg \in ExcMsgs : LineAttempts(attempt, msg)
  /\ UNCHANGED <<calls, content, mdLoaded, base_size, rendered,
                 fontVars, fitVars, histVars, runVars>>

\* the loop ends
PlainDone ==
  /\ ppc = "lines"
  /\ lineNo > Len(content)
  /\ ppc' = "output"
  /\ tried' = tried \cup {"plain"}
  /\ UNCHANGED <<calls, content, mdLoaded, base_size, rendered, lineNo, doc,
                 pdfResult, raisedAt, fontVars, fitVars, histVars, runVars>>

\* lines 111-117: pdf.output, as bytes or (old versions) as str; return
Output ==
  /\ ppc = "output"
  /\ \/ /\ pdfResult' = Returned(Some(Serialize(doc)), None)
        /\ ppc' = "returned"
        /\ UNCHANGED raisedAt
     \/ \E msg \in ExcMsgs : OuterHandler(msg, "output")
  /\ UNCHANGED <<calls, content, mdLoaded, base_size, rendered, lineNo, doc, tried,
                 fontVars, fitVars, histVars, runVars>>

FontInit ==
  /\ fontFile = "absent"
  /\ fontCall = NoFontCall
  /\ readyOnce = FALSE
  /\ netCalls = 0
  /\ netAfterReady = 0

PdfIdle ==
  /\ ppc = "idle"
  /\ calls = 0
  /\ content = <<"">>
  /\ base_size = 0
  /\ rendered = FALSE
  /\ lineNo = 1
  /\ doc = <<>>
  /\ pdfResult = NoResult
  /\ tried = {}
  /\ raisedAt = "none"

FitIdle == fitted = 0

(* ---------------------------- specifications --------------------------- *)
HistSave == Save /\ UNCHANGED <<runVars, fontVars, pdfVars, fitVars>>
HistGet == Get /\ UNCHANGED <<runVars, fontVars, pdfVars, fitVars>>
HistDelete == Delete /\ UNCHANGED <<runVars, fontVars, pdfVars, fitVars>>
HistList == List /\ UNCHANGED <<runVars, fontVars, pdfVars, fitVars>>

Rest == FontInit /\ PdfIdle /\ mdLoaded = TRUE /\ FitIdle /\ metrics = NoMetrics

InitHist == HistInit /\ RunIdle /\ Rest
NextHist == HistSave \/ HistGet \/ HistDelete \/ HistList
SpecHist == InitHist /\ [][NextHist]_vars

InitRun == HistInit /\ RunIdle /\ Rest
NextRun ==
  \/ StartRun
  \/ AgentInit
  \/ GenerateStructure
  \/ InitialSearch
  \/ Reflection
  \/ FinalReport
  \/ SaveReport
  \/ StoreHistory
  \/ Display
SpecRun == InitRun /\ [][NextRun]_vars

\* the font file may be there already; markdown may or may not be installed
InitPdf ==
  /\ HistInit /\ RunIdle /\ PdfIdle /\ FitIdle /\ metrics = NoMetrics
  /\ fontFile \in {"absent", "complete"}
  /\ fontCall = NoFontCall
  /\ readyOnce = FALSE
  /\ netCalls = 0
  /\ netAfterReady = 0
  /\ mdLoaded \in BOOLEAN
NextPdf == PdfCall \/ DocSetup \/ Structured \/ PlainLine \/ PlainDone \/ Output
SpecPdf == InitPdf /\ [][NextPdf]_vars

InitFit ==
  /\ HistInit /\ RunIdle /\ FontInit /\ PdfIdle /\ mdLoaded = TRUE /\ FitIdle
  /\ metrics \in AllMetrics
NextFit == Fit
SpecFit == InitFit /\ [][NextFit]_vars

(* -------------------------------- claims ------------------------------- *)
\* v is the integer part of the non-negative quotient num/den
IsIntPart(v, num, den) == v * den <= num /\ num < (v + 1) * den

RunPastDb == rpc \in {"display", "done", "failed"} /\ dbOutcome # "none"

\* C1: a run whose phases all return normally, with the store available, adds
\* exactly one row to research_history, holding the run's query and final
\* report; no run ever adds more than one row.
C1_ExactlyOneRecord ==
  /\ storeBefore \subseteq store
  /\ Cardinality(store \ storeBefore) <= 1
  /\ (RunPastDb /\ dbOutcome = "ok") =>
       \E row \in store :
         /\ row \notin storeBefore
         /\ store = storeBefore \cup {row}
         /\ row.query = query
         /\ row.report = final_report

\* C1 witness: a second run has completed and added its one row to a store
\* that already held the first run's row.
C1_Witness ==
  /\ rpc = "done"
  /\ dbOutcome = "ok"
  /\ storeBefore # {}
  /\ Cardinality(store) = Cardinality(storeBefore) + 1

\* C2 (as claimed): whenever the outer handler of execute_research has fired,
\* the store holds exactly the rows it held before the run started.
C2_FailedRunPersistsNothing ==
  rpc = "failed" => store = storeBefore

\* C3: when the database block fails in a run whose phases all returned, the
\* failure is a warning only: the handler of the run has not fired because of
\* it, and display_results is invoked with the in-memory final report.
C3_InsertFailureIsWarningOnly ==
  (dbOutcome # "none" /\ ~Committed(dbOutcome)) =>
     /\ warnings = 1
     /\ rpc \in {"display", "done", "failed"}
     /\ rpc = "failed" => raisedIn = "display"
     /\ rpc = "done" => errors = 0
     /\ rpc # "display" => displayed = final_report

\* C3 witness: a run finished without error message after its insert failed.
C3_Witness ==
  /\ rpc = "done"
  /\ dbOutcome = "insert"
  /\ warnings = 1
  /\ errors = 0
  /\ displayed = final_report
  /\ store = storeBefore

\* C4: with N paragraphs, the value reported after paragraph i's initial search
\* is the integer part of 20 + (i + 0.5) * 60 / N and the one after its
\* reflection loop the integer part of 20 + (i + 1) * 60 / N; for N = 3 the
\* end-of-paragraph values are 40, 60, 80.
C4_ProgressFractions ==
  /\ \A i \in 0..(total - 1) :
       /\ Len(progress) >= 4 + 2 * i =>
            IsIntPart(progress[4 + 2 * i], 40 * total + 60 * (2 * i + 1), 2 * total)
       /\ Len(progress) >= 5 + 2 * i =>
            IsIntPart(progress[5 + 2 * i], 20 * total + 60 * (i + 1), total)
  /\ rpc \in {"final", "save_report", "db", "display", "done"} =>
       Len(progress) >= 3 + 2 * total
  /\ rpc = "reflect" => Len(progress) = 4 + 2 * idx
  /\ rpc = "search" => Len(progress) = 3 + 2 * idx
  /\ (total = 3 /\ Len(progress) >= 9) =>
       <<progress[5], progress[7], progress[9]>> = <<40, 60, 80>>

\* C4 witness: a run over three paragraphs has reported all of its values.
C4_Witness ==
  /\ rpc = "done"
  /\ total = 3
  /\ progress = <<0, 10, 20, 30, 40, 50, 60, 70, 80, 90, 100>>

\* C5: when font provisioning fails, generate_pdf_report returns (None,
\* message), the message being the prefix of line 54 followed by the
\* provisioning error, and no rendering tier is attempted.
C5_FontFailureIsReported ==
  (calls > 0 /\ ~fontCall.ready) =>
     /\ ~fontCall.existed
     /\ ppc = "returned"
     /\ pdfResult.kind = "return"
     /\ pdfResult.bytes = Absent
     /\ LET e == pdfResult.err
            n == Len(FontErrorPrefix)
        IN /\ Len(e) >= n
           /\ SubSeq(e, 1, n) = FontErrorPrefix
           /\ SubSeq(e, n + 1, Len(e)) = fontCall.err
     /\ tried = {}
     /\ doc = <<>>

\* C5 witness: the file was absent, the download was tried and failed, and
\* the call returned the prefixed message.
C5_Witness ==
  /\ ppc = "returned"
  /\ ~fontCall.ready
  /\ fontCall.net = 1
  /\ fontFile = "absent"
  /\ pdfResult = Returned(Absent, FontErrorPrefix \o "boom")

\* C6: generate_pdf_report never raises to its caller; it returns either
\* (non-empty bytes, None) or (None, message).
C6_ReturnShape ==
  /\ pdfResult.kind # "raise"
  /\ ppc = "returned" =>
       /\ pdfResult.kind = "return"
       /\ \/ /\ pdfResult.bytes # Absent
             /\ Len(pdfResult.bytes[1]) > 0
             /\ pdfResult.err = None
          \/ /\ pdfResult.bytes = Absent
             /\ pdfResult.err # None

\* C6 witness: the structured tier failed, the plain-text tier completed and
\* the serialization raised: the call returned (None, message).
C6_Witness ==
  /\ ppc = "returned"
  /\ tried = {"doc", "structured", "plain"}
  /\ raisedAt = "output"
  /\ pdfResult = Returned(Absent, "boom")

\* C7 (as claimed): once the plain-text tier is entered, no line aborts the
\* document: unless the serialization itself fails, the call returns
\* non-empty bytes and no error.
C7_NoLineAbortsDocument ==
  (ppc = "returned" /\ "plain" \in tried /\ raisedAt # "output") =>
     /\ pdfResult.bytes # Absent
     /\ pdfResult.err = None

\* C8: choose_font_size returns a size in 7..12: the largest size at which
\* every test glyph is strictly narrower than the effective width, and 7 when
\* there is no such size.
C8_FontSizeChoice ==
  fitted # 0 =>
     LET fits == {sz \in 7..12 :
                    \A ch \in TestChars :
                      metrics[ch][sz] < PageWidth - LeftMargin - RightMargin}
     IN /\ fitted \in 7..12
        /\ fits # {} => (fitted \in fits /\ \A sz \in fits : sz <= fitted)
        /\ fits = {} => fitted = 7

\* C8 witness: the widest glyph is exactly as wide as the page's effective
\* width at every size, and the floor size was returned.
C8_Witness ==
  /\ fitted = 7
  /\ \A sz \in Sizes : MaxWidth(metrics, sz) = EffectiveWidth

\* C9: a call of ensure_chinese_font that finds the file returns (True, None)
\* without a download or a write; after one call has returned ready no later
\* call downloads.
C9_ProvisioningIdempotent ==
  /\ fontCall.existed =>
       /\ fontCall.ready
       /\ fontCall.err = None
       /\ fontCall.net = 0
       /\ fontCall.wrote = 0
  /\ netAfterReady = 0

\* C9 witness: the first call downloaded the font, the second found it.
C9_Witness ==
  /\ calls = 2
  /\ netCalls = 1
  /\ fontFile = "complete"
  /\ fontCall.existed
  /\ fontCall.ready

\* C10: a fetch by the id of a committed (query, report) pair that was not
\* deleted returns a row with that query and report; a fetch of an id whose
\* delete committed returns absent.
C10_RoundTrip ==
  (hres.op = "get" /\ hres.ok) =>
     /\ hres.id \in deleted => hres.ret = Absent
     /\ \A a \in assigned :
          (a.id = hres.id /\ a.id \notin deleted) =>
             /\ hres.ret # Absent
             /\ hres.ret[1].id = a.id
             /\ hres.ret[1].query = a.query
             /\ hres.ret[1].report = a.report

\* C10 witness: after a save, a delete of it and a second save, the second
\* row is fetched by its id.
C10_Witness ==
  /\ hres.op = "get"
  /\ hres.ok
  /\ hres.ret # Absent
  /\ hres.id = 2
  /\ deleted = {1}

HasRow(record_id) == \E row \in store : row.id = record_id
AssignedIds == {a.id : a \in assigned}

\* C11 (as claimed): with the table in place and no storage failure,
\* delete_history_record of an id that has no row returns False, reports no
\* error and leaves the rows as they were; it returns True only when a row was
\* removed.
C11_DeleteOfAbsentIdReturnsFalse ==
  [][(hres'.op = "delete" /\ ~hres'.fault /\ tableExists) =>
        /\ ~HasRow(hres'.id) => (~hres'.ok /\ ~hres'.err /\ store' = store)
        /\ hres'.ok => store' # store]_vars

\* C12: a committed save keeps every row it found and adds exactly one, under
\* an id no insert was given before (ids of deleted rows included); a save that
\* fails adds none; no step gives a row an id that was assigned before.
C12_SaveIsAppendOnly ==
  [][/\ \A row \in store' \ store : row.id \notin AssignedIds
     /\ hres'.op = "save" =>
          /\ store \subseteq store'
          /\ IF hres'.ok
               THEN \E row \in store' :
                      /\ row \notin store
                      /\ store' = store \cup {row}
                      /\ row.id = hres'.id
                      /\ row.id \notin AssignedIds
               ELSE store' = store]_vars

\* C12 witness: the first row was deleted and a second save was committed.
C12_Witness ==
  /\ hres.op = "save"
  /\ hres.ok
  /\ hres.id = 2
  /\ deleted = {1}
  /\ {row.id : row \in store} = {2}

\* C13: get_history_records returns the rows saved and not since deleted, each
\* once, in descending order of created_at.
C13_ListNewestFirst ==
  (hres.op = "list" /\ hres.ok) =>
     LET rows == hres.ret
     IN /\ {[id |-> rows[i].id, query |-> rows[i].query, report |-> rows[i].report] :
              i \in DOMAIN rows} = {a \in assigned : a.id \notin deleted}
        /\ \A i, j \in DOMAIN rows : i # j => rows[i].id # rows[j].id
        /\ \A i, j \in DOMAIN rows : i < j => rows[i].created_at >= rows[j].created_at

\* C13 witness: two rows of different created_at were listed, the later first.
C13_Witness ==
  /\ hres.op = "list"
  /\ hres.ok
  /\ DOMAIN hres.ret = 1..2
  /\ hres.ret[1].created_at > hres.ret[2].created_at

\* C14 (as claimed): on a store without the table, and with no storage failure,
\* each operation completes without an error: list returns no rows, get-by-id
\* returns absent, delete reports no error, save inserts the row.
C14_OperationsCreateTheTable ==
  [][(~tableExists /\ hres'.op \in {"save", "list", "get", "delete"} /\ ~hres'.fault) =>
        /\ ~hres'.err
        /\ tableExists'
        /\ hres'.op = "list" => (hres'.ok /\ hres'.ret = <<>>)
        /\ hres'.op = "get" => hres'.ret = Absent
        /\ hres'.op = "save" => (hres'.ok /\ \E row \in store' : row.id = hres'.id)]_vars

Before(name, i, k) == \E j \in 1..(k - 1) : phases[j] = Phase(name, i)
Invoked(name, i) == \E j \in DOMAIN phases : phases[j] = Phase(name, i)

\* C16: in a run the structure phase comes before every paragraph phase; for
\* each paragraph i, search(i) comes before reflection(i), reflection(i) before
\* completed(i), completed(i) before search(i+1); the final report is
\* synthesised only after every paragraph of the structure was completed.
C16_PhaseOrder ==
  \A k \in DOMAIN phases :
    LET p == phases[k]
    IN /\ p.ph \in {"search", "reflect", "completed"} => p.i \in 0..(total - 1)
       /\ p.ph = "search" =>
            /\ Before("structure", 0, k)
            /\ p.i > 0 => Before("completed", p.i - 1, k)
       /\ p.ph = "reflect" => Before("search", p.i, k)
       /\ p.ph = "completed" => Before("reflect", p.i, k)
       /\ p.ph = "final" =>
            /\ Before("structure", 0, k)
            /\ \A i \in 0..(total - 1) : Before("completed", i, k)

\* C16 witness: the final report was synthesised for a structure of three
\* paragraphs.
C16_Witness ==
  /\ total = 3
  /\ Invoked("final", 0)
  /\ Invoked("completed", 2)

\* C17 (as claimed): progress 100 is reported only after the insert into the
\* history store has been attempted.
C17_CompleteOnlyAfterSave ==
  (\E k \in DOMAIN progress : progress[k] = 100) => Invoked("db", 0)

\* C18: no phase is invoked twice in a run; once a phase before the history
\* insert has raised, one run-failed message is surfaced, the raising phase is
\* the last one invoked and the next step can only be a new run.
C18_NoRetry ==
  [][/\ \A j, k \in DOMAIN phases' : j # k => phases'[j] # phases'[k]
     /\ (rpc' = "failed" /\ raisedIn' # "display") =>
          /\ errors' = 1
          /\ phases'[Len(phases')].ph = raisedIn'
          /\ ~Invoked("db", 0)'
     /\ rpc = "failed" => (rpc' = "init" /\ runs' = runs + 1 /\ phases' = <<>>)]_vars

\* C18 witness: the reflection of the second paragraph raised.
C18_Witness ==
  /\ rpc = "failed"
  /\ raisedIn = "reflect"
  /\ idx = 1
  /\ errors = 1

StructuredThrew == "structured" \in tried /\ ~rendered
PastTiers == ppc = "output" \/ (ppc = "returned" /\ raisedAt \in {"line", "output"})

\* C19: the plain-text loop is entered only when markdown is missing or the
\* structured tier threw, and a render that got past the tiers entered it in
\* exactly those cases; when the structured tier completed no plain-text line
\* is in the document; a render whose structured tier threw returns an error
\* only for a failure of a plain-text line or of the output.
C19_PlainTierIffStructuredFailed ==
  /\ "plain" \in tried => (~mdLoaded \/ StructuredThrew)
  /\ PastTiers => ("plain" \in tried <=> (~mdLoaded \/ StructuredThrew))
  /\ rendered => \A k \in DOMAIN doc : doc[k].tier # "plain"
  /\ ppc = "structured" => tried = {"doc"}
  /\ (StructuredThrew /\ ppc = "returned" /\ pdfResult.bytes = Absent) =>
       raisedAt \in {"line", "output"}

\* C19 witness: the structured tier threw, the plain-text loop wrote the lines
\* and the call returned the document.
C19_Witness ==
  /\ mdLoaded
  /\ StructuredThrew
  /\ "plain" \in tried
  /\ ppc = "returned"
  /\ pdfResult.bytes # Absent

\* C20 (as claimed): whenever ensure_chinese_font reports ready, the file at
\* the font path is a completely downloaded font.
C20_ReadyMeansCompleteFont ==
  fontCall.ready => fontFile = "complete"

Reported(v) == \E k \in DOMAIN progress : progress[k] = v

\* C21: the progress values reported in a run never decrease and lie in
\* 0..100; with at least one paragraph, the value reported after the last
\* paragraph is 80; 100 is reported only in a run in which the agent's
\* construction, the structure, every paragraph's search and reflection, the
\* final report and the agent's report save were invoked and none of them
\* raised.
C21_ProgressSequence ==
  /\ \A k \in DOMAIN progress : progress[k] \in 0..100
  /\ \A j, k \in DOMAIN progress : j < k => progress[j] <= progress[k]
  /\ (total >= 1 /\ Len(progress) >= 3 + 2 * total) => progress[3 + 2 * total] = 80
  /\ Reported(100) =>
       /\ progress[Len(progress)] = 100
       /\ Invoked("init", 0) /\ Invoked("structure", 0)
       /\ \A i \in 0..(total - 1) :
            Invoked("search", i) /\ Invoked("reflect", i) /\ Invoked("completed", i)
       /\ Invoked("final", 0) /\ Invoked("save_report", 0)
       /\ raisedIn \in {"none", "display"}

\* C21 witness: a run over three paragraphs reported 100.
C21_Witness ==
  /\ total = 3
  /\ Reported(100)
  /\ Len(progress) = 11
  /\ progress[9] = 80

\* C22 (as claimed): a returned PDF holds the output of one rendering tier
\* only: nothing drawn by the structured tier stands beside plain-text lines.
C22_ExactlyOneTier ==
  (ppc = "returned" /\ pdfResult.bytes # Absent) =>
     LET d == pdfResult.bytes[1]
     IN ~(\E j, k \in DOMAIN d : d[j].tier = "html" /\ d[k].tier = "plain")

====
